---- MODULE Spec2Model ----
(***************************************************************************)
(* Model of the authentication service: AuthService (register, login,      *)
(* refreshTokens, logout, generateTokens, storeRefreshToken) and the       *)
(* UsersService operations it relies on, over the two Prisma tables        *)
(* (user, refreshToken).                                                   *)
(*                                                                         *)
(* Time is the wall clock in milliseconds (Date); a JWT's iat/exp are in   *)
(* whole seconds, as jsonwebtoken computes them.  A JWT string is modelled *)
(* by the fields that determine it: payload, iat, exp and signing secret   *)
(* (HS256 is deterministic, so equal fields give the equal string).        *)
(***************************************************************************)
EXTENDS Integers, FiniteSets, Sequences, TLC

\* ---- bounds of the model ------------------------------------------------
MaxUsers == 2
MaxTokens == 3
MaxSeconds == 1
MaxSessions == 2

\* ---- program constants --------------------------------------------------
StoreDays == 7
AccessDefaultTtl == 900
RefreshDefaultTtl == 604800
SaltRounds == 10

MsPerSecond == 1000
MsPerDay == 86400 * MsPerSecond

\* ---- input sets ---------------------------------------------------------
Emails == {"alice@example.com", "bob@example.com"}
Passwords == {"pw123456", "wrongpassword"}
RegisteredPasswords == {"pw123456"}
Roles == {"USER", "ADMIN"}
\* configured JWT_REFRESH_TOKEN_EXPIRATION, in seconds; 0 stands for "unset"
RefreshTtlSettings == {0, 2 * RefreshDefaultTtl}
\* configured JWT_ACCESS_TOKEN_EXPIRATION, in seconds; 0 stands for "unset"
AccessTtlSettings == {0, RefreshDefaultTtl}
Procs == {"p", "q"}
\* the clock advances by a second or, once, jumps by seven days
Jump == StoreDays * MsPerDay

VARIABLES
  now,        \* Date.now(), milliseconds
  config,     \* ConfigService: secrets and TTL settings, fixed at startup
  users,      \* table user: set of rows
  nextId,     \* number of user ids handed out so far (ids are never reused)
  tokens,     \* table refreshToken: set of rows, column token unique
  resp,       \* the response of the last completed request
  procs,      \* in-flight refresh requests (interleaved specification only)
  loggedOut,  \* history: the token string an observed, completed logout was given
  chain       \* history: for a token issued by a refresh, the first token of
              \* its rotation chain (interleaved specification only)

vars == <<now, config, users, nextId, tokens, resp, procs, loggedOut, chain>>

\* ---- bcrypt ---------------------------------------------------------------
bcryptHash(plain, rounds) == [alg |-> "bcrypt", rounds |-> rounds, of |-> plain]
bcryptCompare(plain, digest) == digest.alg = "bcrypt" /\ digest.of = plain

\* ---- JwtService (jsonwebtoken) -------------------------------------------
Malformed == [malformed |-> TRUE]
IsJwt(t) == DOMAIN t = {"sub", "email", "role", "iat", "exp", "sig"}

signAsync(payload, secret, expiresIn) ==
  [sub   |-> payload.sub,
   email |-> payload.email,
   role  |-> payload.role,
   iat   |-> now \div MsPerSecond,
   exp   |-> (now \div MsPerSecond) + expiresIn,
   sig   |-> secret]

\* verify: {} when it throws, otherwise the singleton of the decoded payload
jwtVerify(t, secret) ==
  IF ~IsJwt(t) THEN {}
  ELSE IF t.sig # secret THEN {}
  ELSE IF (now \div MsPerSecond) >= t.exp THEN {}
  ELSE {[sub |-> t.sub, email |-> t.email, role |-> t.role,
         iat |-> t.iat, exp |-> t.exp]}

\* ---- ConfigService ---------------------------------------------------------
accessExpiresIn ==
  IF config.accessTtl = 0 THEN AccessDefaultTtl ELSE config.accessTtl
refreshExpiresIn ==
  IF config.refreshTtl = 0 THEN RefreshDefaultTtl ELSE config.refreshTtl

\* ---- UsersService ----------------------------------------------------------
findByEmail(email) == {u \in users : u.email = email}
findById(id) == {u \in users : u.id = id}

create(email, password) ==
  [id       |-> nextId + 1,
   email    |-> email,
   password |-> bcryptHash(password, SaltRounds),
   role     |-> "USER",
   isActive |-> TRUE]

\* ---- responses -------------------------------------------------------------
NoTokens == {}
Reply(op, arg, code, message, pair) ==
  [op |-> op, arg |-> arg, code |-> code, message |-> message, tokens |-> pair]

Unauthorized(op, arg, message) == Reply(op, arg, 401, message, NoTokens)
Conflict(op, arg, message) == Reply(op, arg, 409, message, NoTokens)
\* an exception that is not an HttpException: Nest answers 500
InternalError(op, arg) == Reply(op, arg, 500, "Internal server error", NoTokens)

\* ---- AuthService: token issuance -----------------------------------------
generateTokens(userId, email, role) ==
  LET payload == [sub |-> userId, email |-> email, role |-> role]
  IN  [accessToken  |-> signAsync(payload, config.accessSecret, accessExpiresIn),
       refreshToken |-> signAsync(payload, config.refreshSecret, refreshExpiresIn)]

\* prisma.refreshToken.create: throws when the unique column token is taken
createThrows(table, row) == \E r \in table : r.token = row.token

\* variant: the row is written without its owner
refreshTokenRow_noOwner(userId, refreshToken) ==
  [token     |-> refreshToken,
   userId    |-> 0,
   expiresAt |-> now + StoreDays * MsPerDay,
   isRevoked |-> FALSE]

\* the row storeRefreshToken writes
refreshTokenRow(userId, refreshToken) ==
  [token     |-> refreshToken,
   userId    |-> userId,
   expiresAt |-> now + StoreDays * MsPerDay,
   isRevoked |-> FALSE]

\* variant: the create is not awaited, so its failure is not seen by the caller
storeRefreshToken_unawaited(table, userId, refreshToken) ==
  LET row == refreshTokenRow(userId, refreshToken)
  IN  [threw |-> FALSE,
       table |-> IF createThrows(table, row) THEN table ELSE table \cup {row}]

\* storeRefreshToken: the table afterwards and whether create threw
storeRefreshToken(table, userId, refreshToken) ==
  LET row == refreshTokenRow(userId, refreshToken)
  IN  IF createThrows(table, row)
      THEN [threw |-> TRUE, table |-> table]
      ELSE [threw |-> FALSE, table |-> table \cup {row}]

\* ---- AuthService.register -------------------------------------------------
\* variant: the existing-user check is missing
register_noConflictCheck(email, password) ==
  /\ nextId < MaxUsers
  /\ LET user == create(email, password)
         pair == generateTokens(user.id, user.email, user.role)
         st == storeRefreshToken(tokens, user.id, pair.refreshToken)
     IN  /\ Cardinality(st.table) <= MaxTokens
         /\ users' = users \cup {user}
         /\ nextId' = nextId + 1
         /\ tokens' = st.table
         /\ resp' = IF st.threw
                    THEN InternalError("register", [email |-> email, password |-> password])
                    ELSE Reply("register", [email |-> email, password |-> password],
                               201, "", {pair})

register(email, password) ==
  LET arg == [email |-> email, password |-> password]
      existingUser == findByEmail(email)
  IN  IF existingUser # {}
      THEN /\ resp' = Conflict("register", arg, "User with this email already exists")
           /\ UNCHANGED <<users, nextId, tokens>>
      ELSE /\ nextId < MaxUsers
           /\ LET user == create(email, password)
                  pair == generateTokens(user.id, user.email, user.role)
                  st == storeRefreshToken(tokens, user.id, pair.refreshToken)
              IN  /\ Cardinality(st.table) <= MaxTokens
                  /\ users' = users \cup {user}
                  /\ nextId' = nextId + 1
                  /\ tokens' = st.table
                  /\ resp' = IF st.threw THEN InternalError("register", arg)
                             ELSE Reply("register", arg, 201, "", {pair})

RegisterCall(email, password) ==
  register(email, password) /\ UNCHANGED <<now, config, procs, loggedOut, chain>>

Register ==
  \E email \in Emails, password \in RegisteredPasswords : RegisterCall(email, password)

\* ---- AuthService.login ----------------------------------------------------
login(email, password) ==
  LET arg == [email |-> email, password |-> password]
      found == findByEmail(email)
  IN  IF found = {}
      THEN /\ resp' = Unauthorized("login", arg, "Invalid credentials")
           /\ UNCHANGED tokens
      ELSE LET user == CHOOSE u \in found : TRUE
           IN  IF ~user.isActive
               THEN /\ resp' = Unauthorized("login", arg, "Account is deactivated")
                    /\ UNCHANGED tokens
               ELSE IF ~bcryptCompare(password, user.password)
               THEN /\ resp' = Unauthorized("login", arg, "Invalid credentials")
                    /\ UNCHANGED tokens
               ELSE LET pair == generateTokens(user.id, user.email, user.role)
                        st == storeRefreshToken(tokens, user.id, pair.refreshToken)
                    IN  /\ Cardinality(st.table) <= MaxTokens
                        /\ tokens' = st.table
                        /\ resp' = IF st.threw THEN InternalError("login", arg)
                                   ELSE Reply("login", arg, 200, "", {pair})

LoginCall(email, password) ==
  login(email, password) /\ UNCHANGED <<now, config, users, nextId, procs, loggedOut, chain>>

Login ==
  \E email \in Emails, password \in Passwords : LoginCall(email, password)

\* ---- AuthService.refreshTokens --------------------------------------------
\* prisma.refreshToken.findUnique({ where: { token } })
findUniqueToken(table, refreshToken) == {r \in table : r.token = refreshToken}

\* variant: every row of the token's user is revoked (where: { userId })
revoke_allOfUser(table, refreshToken) ==
  {IF \E o \in table : o.token = refreshToken /\ o.userId = r.userId
   THEN [r EXCEPT !.isRevoked = TRUE] ELSE r : r \in table}

\* variant: the matching rows are deleted (deleteMany)
revoke_delete(table, refreshToken) == {r \in table : r.token # refreshToken}

\* variant: the update flips the flag instead of setting it
revoke_toggle(table, refreshToken) ==
  {IF r.token = refreshToken THEN [r EXCEPT !.isRevoked = ~r.isRevoked] ELSE r : r \in table}

\* prisma.refreshToken.update / updateMany({ where: { token }, data: { isRevoked: true } })
revoke(table, refreshToken) ==
  {IF r.token = refreshToken THEN [r EXCEPT !.isRevoked = TRUE] ELSE r : r \in table}

\* variant: the catch block rethrows what it caught
refreshCatch_rethrow(thrown) == thrown

\* the catch block: whatever was thrown inside the try, this is what is rethrown
refreshCatch(thrown) == "Invalid refresh token"

\* variant: the test of isRevoked is missing
refreshCheck_ignoresRevoked(table, refreshToken) ==
  LET payload == jwtVerify(refreshToken, config.refreshSecret)
      storedToken == findUniqueToken(table, refreshToken)
  IN  IF payload = {} THEN "JsonWebTokenError"
      ELSE IF storedToken = {} THEN "Invalid refresh token"
      ELSE IF \E r \in storedToken : now > r.expiresAt
      THEN "Refresh token expired"
      ELSE ""

\* lines 93-107: the exception thrown before the user lookup, "" when none
refreshCheck(table, refreshToken) ==
  LET payload == jwtVerify(refreshToken, config.refreshSecret)
      storedToken == findUniqueToken(table, refreshToken)
  IN  IF payload = {} THEN "JsonWebTokenError"
      ELSE IF storedToken = {} \/ (\E r \in storedToken : r.isRevoked)
      THEN "Invalid refresh token"
      ELSE IF \E r \in storedToken : now > r.expiresAt
      THEN "Refresh token expired"
      ELSE ""

\* lines 109-110: the exception thrown by the user lookup, "" when none
refreshUserCheck(found) ==
  IF found = {} THEN "User not found"
  ELSE IF \E u \in found : ~u.isActive THEN "Account is deactivated"
  ELSE ""

\* variant: the new pair is signed over the claims of the presented token
refreshTokens_payloadClaims(refreshToken) ==
  LET arg == [refreshToken |-> refreshToken]
      thrown == refreshCheck(tokens, refreshToken)
  IN  IF thrown # ""
      THEN /\ resp' = Unauthorized("refresh", arg, refreshCatch(thrown))
           /\ UNCHANGED tokens
      ELSE LET payload == CHOOSE pl \in jwtVerify(refreshToken, config.refreshSecret) : TRUE
               found == findById(payload.sub)
               thrown2 == refreshUserCheck(found)
           IN  IF thrown2 # ""
               THEN /\ resp' = Unauthorized("refresh", arg, refreshCatch(thrown2))
                    /\ UNCHANGED tokens
               ELSE LET user == CHOOSE u \in found : TRUE
                        revoked == revoke(tokens, refreshToken)
                        pair == generateTokens(payload.sub, payload.email, payload.role)
                        st == storeRefreshToken(revoked, user.id, pair.refreshToken)
                    IN  /\ Cardinality(st.table) <= MaxTokens
                        /\ tokens' = st.table
                        /\ resp' = IF st.threw
                                   THEN Unauthorized("refresh", arg,
                                                     refreshCatch("PrismaClientKnownRequestError"))
                                   ELSE Reply("refresh", arg, 200, "", {pair})

refreshTokens(refreshToken) ==
  LET arg == [refreshToken |-> refreshToken]
      thrown == refreshCheck(tokens, refreshToken)
  IN  IF thrown # ""
      THEN /\ resp' = Unauthorized("refresh", arg, refreshCatch(thrown))
           /\ UNCHANGED tokens
      ELSE LET payload == CHOOSE pl \in jwtVerify(refreshToken, config.refreshSecret) : TRUE
               found == findById(payload.sub)
               thrown2 == refreshUserCheck(found)
           IN  IF thrown2 # ""
               THEN /\ resp' = Unauthorized("refresh", arg, refreshCatch(thrown2))
                    /\ UNCHANGED tokens
               ELSE LET user == CHOOSE u \in found : TRUE
                        revoked == revoke(tokens, refreshToken)
                        pair == generateTokens(user.id, user.email, user.role)
                        st == storeRefreshToken(revoked, user.id, pair.refreshToken)
                    IN  /\ Cardinality(st.table) <= MaxTokens
                        /\ tokens' = st.table
                        /\ resp' = IF st.threw
                                   THEN Unauthorized("refresh", arg,
                                                     refreshCatch("PrismaClientKnownRequestError"))
                                   ELSE Reply("refresh", arg, 200, "", {pair})

\* the token strings a client can present: every refresh token in the store,
\* every token of the last response, and a string that is no JWT
Presentable ==
  {r.token : r \in tokens}
    \cup UNION {{pr.accessToken, pr.refreshToken} : pr \in resp.tokens}
    \cup {Malformed}

RefreshCall(t) ==
  refreshTokens(t) /\ UNCHANGED <<now, config, users, nextId, procs, loggedOut, chain>>

RefreshTokens ==
  \E t \in Presentable : RefreshCall(t)

\* ---- AuthService.logout ---------------------------------------------------
\* variant: update instead of updateMany, which throws when no row matches
logout_update(refreshToken) ==
  IF findUniqueToken(tokens, refreshToken) = {}
  THEN /\ resp' = InternalError("logout", [refreshToken |-> refreshToken])
       /\ UNCHANGED tokens
  ELSE /\ tokens' = revoke(tokens, refreshToken)
       /\ resp' = Reply("logout", [refreshToken |-> refreshToken], 200,
                        "Logged out successfully", NoTokens)

logout(refreshToken) ==
  /\ tokens' = revoke(tokens, refreshToken)
  /\ resp' = Reply("logout", [refreshToken |-> refreshToken], 200,
                   "Logged out successfully", NoTokens)

LogoutCall(t) ==
  logout(t) /\ UNCHANGED <<now, config, users, nextId, procs, loggedOut, chain>>

Logout ==
  \E t \in Presentable : LogoutCall(t)

\* a logout whose token is remembered in loggedOut; one logout of a behaviour,
\* any one, is remembered
LogoutObserved ==
  /\ loggedOut = {}
  /\ \E t \in Presentable : logout(t) /\ loggedOut' = {t}
  /\ UNCHANGED <<now, config, users, nextId, procs, chain>>

\* ---- UsersService.deactivate / assignRole ---------------------------------
deactivate(id) ==
  /\ users' = {IF u.id = id THEN [u EXCEPT !.isActive = FALSE] ELSE u : u \in users}
  /\ resp' = Reply("deactivate", [id |-> id], 200, "", NoTokens)

Deactivate ==
  /\ \E u \in users : u.isActive /\ deactivate(u.id)
  /\ UNCHANGED <<now, config, nextId, tokens, procs, loggedOut, chain>>

\* UsersService.update(id, { isActive: true })
reactivate(id) ==
  /\ users' = {IF u.id = id THEN [u EXCEPT !.isActive = TRUE] ELSE u : u \in users}
  /\ resp' = Reply("reactivate", [id |-> id], 200, "", NoTokens)

Reactivate ==
  /\ \E u \in users : ~u.isActive /\ reactivate(u.id)
  /\ UNCHANGED <<now, config, nextId, tokens, procs, loggedOut, chain>>

assignRole(userId, role) ==
  /\ users' = {IF u.id = userId THEN [u EXCEPT !.role = role] ELSE u : u \in users}
  /\ resp' = Reply("assignRole", [userId |-> userId, role |-> role], 200, "", NoTokens)

AssignRole ==
  /\ \E u \in users, role \in Roles : u.role # role /\ assignRole(u.id, role)
  /\ UNCHANGED <<now, config, nextId, tokens, procs, loggedOut, chain>>

\* ---- UsersService.remove -----------------------------------------------
\* prisma.user.delete({ where: { id } })
deleteUser(table, id) == {u \in table : u.id # id}

\* what the deletion of a user does to the user's refresh-token rows: they
\* stay (the rows are an audit trail and are never deleted)
onUserDelete(table, id) == table

remove(id) ==
  /\ users' = deleteUser(users, id)
  /\ tokens' = onUserDelete(tokens, id)
  /\ resp' = Reply("remove", [id |-> id], 200, "User deleted successfully", NoTokens)

Remove ==
  /\ \E u \in users : remove(u.id)
  /\ UNCHANGED <<now, config, nextId, procs, loggedOut, chain>>

\* ---- AuthService.validateUser ---------------------------------------------
\* variant: the test of isActive is missing
validateUser_anyUser(userId) ==
  IF findById(userId) = {} THEN "User not found" ELSE ""

\* the exception thrown, "" when the user is returned
validateUser(userId) ==
  LET found == findById(userId)
  IN  IF found = {} THEN "User not found"
      ELSE IF \E u \in found : ~u.isActive THEN "Account is deactivated"
      ELSE ""

\* ---- guarded requests -----------------------------------------------------
NoBearer == [missing |-> TRUE]
NoId == 0
NoRole == "none"

\* the access token generateTokens signed together with refresh token t
accessTokenOf(t) ==
  [t EXCEPT !.sig = config.accessSecret, !.exp = t.iat + accessExpiresIn]

\* what a client can send as bearer token: an access token it was issued, a
\* refresh token in its place, a string that is no JWT, or nothing
Bearers ==
  {accessTokenOf(r.token) : r \in tokens}
    \cup {r.token : r \in tokens}
    \cup {Malformed, NoBearer}

Passed(claims) == [code |-> 0, message |-> "", claims |-> claims]
Rejected(code, message) == [code |-> code, message |-> message, claims |-> {}]

\* JwtAuthGuard with the jwt strategy: the access token is verified, then
\* validateUser is called with the subject of its claims
jwtAuthGuard(bearer) ==
  LET payload == jwtVerify(bearer, config.accessSecret)
  IN  IF payload = {} THEN Rejected(401, "Unauthorized")
      ELSE LET claims == CHOOSE pl \in payload : TRUE
               thrown == validateUser(claims.sub)
           IN  IF thrown = "User not found" THEN Rejected(404, thrown)
               ELSE IF thrown # "" THEN Rejected(401, thrown)
               ELSE Passed(payload)

\* RolesGuard's decision
authorize(claims, required) == required = {} \/ claims.role \in required

\* the @Roles of each route of UsersController
requiredRoles_open(route) == {}

requiredRoles(route) ==
  IF route \in {"findAll", "assignRole", "findOne", "update", "remove"}
  THEN {"ADMIN"}
  ELSE {}

\* variant: @UseGuards(RolesGuard, JwtAuthGuard)
UseGuards_rolesFirst(route, bearer) ==
  LET decoded == jwtVerify(bearer, config.accessSecret)
  IN  IF \A c \in decoded : ~authorize(c, requiredRoles(route))
      THEN Rejected(403, "Forbidden resource")
      ELSE jwtAuthGuard(bearer)

\* @UseGuards(JwtAuthGuard, RolesGuard)
UseGuards(route, bearer) ==
  LET authenticated == jwtAuthGuard(bearer)
  IN  IF authenticated.code # 0 THEN authenticated
      ELSE IF \E c \in authenticated.claims : ~authorize(c, requiredRoles(route))
      THEN Rejected(403, "Forbidden resource")
      ELSE authenticated

\* GET /auth/me
currentUser(bearer) ==
  LET authenticated == jwtAuthGuard(bearer)
  IN  resp' = Reply("me", [bearer |-> bearer],
                    IF authenticated.code = 0 THEN 200 ELSE authenticated.code,
                    authenticated.message, NoTokens)

CurrentUserCall(bearer) ==
  /\ currentUser(bearer)
  /\ UNCHANGED <<now, config, users, nextId, tokens, procs, loggedOut, chain>>

CurrentUser ==
  \E bearer \in Bearers : CurrentUserCall(bearer)

\* POST /auth/logout behind JwtAuthGuard
\* variant: only the rows of the caller are revoked (where: { token, userId })
logoutRequest_ownRowsOnly(bearer, refreshToken) ==
  LET arg == [bearer |-> bearer, refreshToken |-> refreshToken]
      authenticated == jwtAuthGuard(bearer)
  IN  IF authenticated.code # 0
      THEN /\ resp' = Reply("auth/logout", arg, authenticated.code,
                            authenticated.message, NoTokens)
           /\ UNCHANGED tokens
      ELSE /\ tokens' = {IF r.token = refreshToken
                            /\ \E c \in authenticated.claims : c.sub = r.userId
                         THEN [r EXCEPT !.isRevoked = TRUE] ELSE r : r \in tokens}
           /\ resp' = Reply("auth/logout", arg, 200, "Logged out successfully", NoTokens)

logoutRequest(bearer, refreshToken) ==
  LET arg == [bearer |-> bearer, refreshToken |-> refreshToken]
      authenticated == jwtAuthGuard(bearer)
  IN  IF authenticated.code # 0
      THEN /\ resp' = Reply("auth/logout", arg, authenticated.code,
                            authenticated.message, NoTokens)
           /\ UNCHANGED tokens
      ELSE /\ tokens' = revoke(tokens, refreshToken)
           /\ resp' = Reply("auth/logout", arg, 200, "Logged out successfully", NoTokens)

LogoutRequestCall(bearer, refreshToken) ==
  /\ logoutRequest(bearer, refreshToken)
  /\ UNCHANGED <<now, config, users, nextId, procs, loggedOut, chain>>

LogoutRequest ==
  \E bearer \in Bearers, t \in {r.token : r \in tokens} \cup {Malformed} :
    LogoutRequestCall(bearer, t)

\* the handlers of UsersController, run once the guards have admitted the request in
usersHandler(route, arg) ==
  IF route \in {"profile", "findAll"}
  THEN /\ resp' = Reply(route, arg, 200, "", NoTokens)
       /\ UNCHANGED <<users, tokens>>
  ELSE IF findById(arg.id) = {}
  THEN /\ resp' = IF route = "findOne"
                  THEN Reply(route, arg, 404, "User not found", NoTokens)
                  ELSE InternalError(route, arg)
       /\ UNCHANGED <<users, tokens>>
  ELSE IF route \in {"findOne", "update"}
  THEN /\ resp' = Reply(route, arg, 200, "", NoTokens)
       /\ UNCHANGED <<users, tokens>>
  ELSE IF route = "assignRole"
  THEN /\ users' = {IF u.id = arg.id THEN [u EXCEPT !.role = arg.role] ELSE u : u \in users}
       /\ resp' = Reply(route, arg, 201, "", NoTokens)
       /\ UNCHANGED tokens
  ELSE /\ users' = deleteUser(users, arg.id)
       /\ tokens' = onUserDelete(tokens, arg.id)
       /\ resp' = Reply(route, arg, 200, "User deleted successfully", NoTokens)

usersRequest(route, bearer, id, role) ==
  LET arg == [bearer |-> bearer, id |-> id, role |-> role]
      admitted == UseGuards(route, bearer)
  IN  IF admitted.code # 0
      THEN /\ resp' = Reply(route, arg, admitted.code, admitted.message, NoTokens)
           /\ UNCHANGED <<users, tokens>>
      ELSE usersHandler(route, arg)

UsersRequestCall(route, bearer, id, role) ==
  /\ usersRequest(route, bearer, id, role)
  /\ UNCHANGED <<now, config, nextId, procs, loggedOut, chain>>

\* the routes with the parameters each takes
RouteInputs ==
  {<<route, NoId, NoRole>> : route \in {"profile", "findAll"}}
    \cup {<<route, id, NoRole>> : route \in {"findOne", "update", "remove"},
                                  id \in 1..MaxUsers}
    \cup {<<"assignRole", id, role>> : id \in 1..MaxUsers, role \in Roles}

UsersRequest ==
  \E in \in RouteInputs, bearer \in Bearers :
    UsersRequestCall(in[1], bearer, in[2], in[3])

\* ---- refreshTokens, one store operation at a time -------------------------
\* Each await of refreshTokens is a point where other requests run.  A request
\* is at "find" (before findUnique), "user" (before findById), "revoke"
\* (before update), "issue" (before generateTokens/create) or "done".
Idle == [pc |-> "idle"]

RefreshBegin(p) ==
  /\ procs[p].pc = "idle"
  /\ \E t \in {r.token : r \in tokens} :
       procs' = [procs EXCEPT ![p] = [pc |-> "find", token |-> t]]
  /\ UNCHANGED <<now, config, users, nextId, tokens, resp, loggedOut, chain>>

RefreshFail(p, thrown) ==
  [pc |-> "done", token |-> procs[p].token,
   out |-> Unauthorized("refresh", [refreshToken |-> procs[p].token], refreshCatch(thrown))]

RefreshFind(p) ==
  /\ procs[p].pc = "find"
  /\ LET thrown == refreshCheck(tokens, procs[p].token)
     IN  procs' = [procs EXCEPT ![p] =
                     IF thrown # "" THEN RefreshFail(p, thrown)
                     ELSE [pc |-> "user", token |-> procs[p].token,
                           payload |-> CHOOSE pl \in jwtVerify(procs[p].token,
                                                              config.refreshSecret) : TRUE]]
  /\ UNCHANGED <<now, config, users, nextId, tokens, resp, loggedOut, chain>>

RefreshUser(p) ==
  /\ procs[p].pc = "user"
  /\ LET found == findById(procs[p].payload.sub)
         thrown == refreshUserCheck(found)
     IN  procs' = [procs EXCEPT ![p] =
                     IF thrown # "" THEN RefreshFail(p, thrown)
                     ELSE [pc |-> "revoke", token |-> procs[p].token,
                           user |-> CHOOSE u \in found : TRUE]]
  /\ UNCHANGED <<now, config, users, nextId, tokens, resp, loggedOut, chain>>

RefreshRevoke(p) ==
  /\ procs[p].pc = "revoke"
  /\ tokens' = revoke(tokens, procs[p].token)
  /\ procs' = [procs EXCEPT ![p].pc = "issue"]
  /\ UNCHANGED <<now, config, users, nextId, resp, loggedOut, chain>>

\* the first token of the rotation chain of t: t itself when login or
\* register issued it
Root(t) ==
  IF \E c \in chain : c[1] = t THEN (CHOOSE c \in chain : c[1] = t)[2] ELSE t

RefreshIssue(p) ==
  /\ procs[p].pc = "issue"
  /\ LET user == procs[p].user
         pair == generateTokens(user.id, user.email, user.role)
         st == storeRefreshToken(tokens, user.id, pair.refreshToken)
     IN  /\ Cardinality(st.table) <= MaxTokens
         /\ tokens' = st.table
         /\ procs' = [procs EXCEPT ![p] =
              IF st.threw THEN RefreshFail(p, "PrismaClientKnownRequestError")
              ELSE [pc |-> "done", token |-> procs[p].token,
                    out |-> Reply("refresh", [refreshToken |-> procs[p].token],
                                  200, "", {pair})]]
         /\ chain' = IF st.threw THEN chain
                     ELSE chain \cup {<<pair.refreshToken, Root(procs[p].token)>>}
  /\ UNCHANGED <<now, config, users, nextId, resp, loggedOut>>

\* ---- register, one store operation at a time ----------------------------
\* A request is at "lookup" (before findByEmail), "create" (before
\* usersService.create), "store" (before generateTokens/storeRefreshToken)
\* or "done".
\* prisma.user.create: throws when the unique column email is taken
createUserThrows(table, email) == \E u \in table : u.email = email

RegisterBegin(p) ==
  /\ procs[p].pc = "idle"
  /\ \E email \in Emails, password \in RegisteredPasswords :
       procs' = [procs EXCEPT ![p] =
                   [pc |-> "lookup", email |-> email, password |-> password]]
  /\ UNCHANGED <<now, config, users, nextId, tokens, resp, loggedOut, chain>>

RegisterDone(p, out) ==
  [pc |-> "done", email |-> procs[p].email, password |-> procs[p].password,
   out |-> out]

RegisterLookup(p) ==
  /\ procs[p].pc = "lookup"
  /\ LET arg == [email |-> procs[p].email, password |-> procs[p].password]
     IN  procs' = [procs EXCEPT ![p] =
                     IF findByEmail(procs[p].email) # {}
                     THEN RegisterDone(p, Conflict("register", arg,
                                           "User with this email already exists"))
                     ELSE [procs[p] EXCEPT !.pc = "create"]]
  /\ UNCHANGED <<now, config, users, nextId, tokens, resp, loggedOut, chain>>

RegisterCreate(p) ==
  /\ procs[p].pc = "create"
  /\ LET arg == [email |-> procs[p].email, password |-> procs[p].password]
     IN  IF createUserThrows(users, procs[p].email)
         THEN /\ procs' = [procs EXCEPT ![p] =
                             RegisterDone(p, InternalError("register", arg))]
              /\ UNCHANGED <<users, nextId>>
         ELSE /\ nextId < MaxUsers
              /\ LET user == create(procs[p].email, procs[p].password)
                 IN  /\ users' = users \cup {user}
                     /\ nextId' = nextId + 1
                     /\ procs' = [procs EXCEPT ![p] =
                                    [pc |-> "store", email |-> procs[p].email,
                                     password |-> procs[p].password, user |-> user]]
  /\ UNCHANGED <<now, config, tokens, resp, loggedOut, chain>>

RegisterStore(p) ==
  /\ procs[p].pc = "store"
  /\ LET arg == [email |-> procs[p].email, password |-> procs[p].password]
         user == procs[p].user
         pair == generateTokens(user.id, user.email, user.role)
         st == storeRefreshToken(tokens, user.id, pair.refreshToken)
     IN  /\ Cardinality(st.table) <= MaxTokens
         /\ tokens' = st.table
         /\ procs' = [procs EXCEPT ![p] =
              RegisterDone(p, IF st.threw THEN InternalError("register", arg)
                              ELSE Reply("register", arg, 201, "", {pair}))]
  /\ UNCHANGED <<now, config, users, nextId, resp, loggedOut, chain>>

\* ---- the clock ---------------------------------------------------------
Tick ==
  /\ \/ /\ (now % Jump) + MsPerSecond <= MaxSeconds * MsPerSecond
        /\ now' = now + MsPerSecond
     \/ /\ now < Jump
        /\ now' = now + Jump
  /\ UNCHANGED <<config, users, nextId, tokens, resp, procs, loggedOut, chain>>

\* ---- specification ------------------------------------------------------
Configs ==
  {[accessSecret |-> "access-secret", refreshSecret |-> "refresh-secret",
    accessTtl |-> 0, refreshTtl |-> ttl] : ttl \in RefreshTtlSettings}

\* JWT_SECRET and JWT_REFRESH_SECRET set to the same value
SharedSecretConfigs ==
  {[accessSecret |-> "replace-in-production", refreshSecret |-> "replace-in-production",
    accessTtl |-> ttl, refreshTtl |-> 0] : ttl \in AccessTtlSettings}

Init ==
  /\ now = 0
  /\ config \in Configs
  /\ users = {}
  /\ nextId = 0
  /\ tokens = {}
  /\ resp = Reply("none", [none |-> TRUE], 0, "", NoTokens)
  /\ procs = [p \in Procs |-> Idle]
  /\ loggedOut = {}
  /\ chain = {}

InitSharedSecret ==
  /\ now = 0
  /\ config \in SharedSecretConfigs
  /\ users = {}
  /\ nextId = 0
  /\ tokens = {}
  /\ resp = Reply("none", [none |-> TRUE], 0, "", NoTokens)
  /\ procs = [p \in Procs |-> Idle]
  /\ loggedOut = {}
  /\ chain = {}

Next ==
  \/ Register
  \/ Login
  \/ RefreshTokens
  \/ Logout
  \/ Deactivate
  \/ Tick

Spec == Init /\ [][Next]_vars

\* the same with one secret for both kinds of token
SpecSharedSecret == InitSharedSecret /\ [][Next]_vars

\* the same with role changes
NextRoles == Next \/ AssignRole

SpecRoles == Init /\ [][NextRoles]_vars

\* the same with one logout observed
NextLogout == Next \/ LogoutObserved

SpecLogout == Init /\ [][NextLogout]_vars

\* the same with users reactivated
NextReactivate == Next \/ Reactivate

SpecReactivate == Init /\ [][NextReactivate]_vars

\* the same with users removed
NextRemove == Next \/ Remove

SpecRemove == Init /\ [][NextRemove]_vars

\* sessions issued by register and login, and GET /auth/me
NextCurrentUser ==
  \/ Register
  \/ Login
  \/ Deactivate
  \/ Tick
  \/ CurrentUser

SpecCurrentUser == Init /\ [][NextCurrentUser]_vars

\* a few sessions issued by register and login, and POST /auth/logout
NextLogoutRequest ==
  \/ (Cardinality(tokens) < MaxSessions /\ Register)
  \/ (Cardinality(tokens) < MaxSessions /\ Login)
  \/ Deactivate
  \/ Tick
  \/ LogoutRequest

SpecLogoutRequest == Init /\ [][NextLogoutRequest]_vars

\* a few sessions issued by register and login, role changes, and the
\* requests to UsersController behind its guards
NextGuard ==
  \/ (Cardinality(tokens) < MaxSessions /\ Register)
  \/ (Cardinality(tokens) < MaxSessions /\ Login)
  \/ Deactivate
  \/ AssignRole
  \/ Tick
  \/ UsersRequest

SpecGuard == Init /\ [][NextGuard]_vars

\* requests interleaved at their awaits
NextConc ==
  \/ Register
  \/ Tick
  \/ \E p \in Procs : RefreshBegin(p)
  \/ \E p \in Procs : RefreshFind(p)
  \/ \E p \in Procs : RefreshUser(p)
  \/ \E p \in Procs : RefreshRevoke(p)
  \/ \E p \in Procs : RefreshIssue(p)

SpecConc == Init /\ [][NextConc]_vars

\* register requests interleaved at their awaits
NextConcRegister ==
  \/ Tick
  \/ \E p \in Procs : RegisterBegin(p)
  \/ \E p \in Procs : RegisterLookup(p)
  \/ \E p \in Procs : RegisterCreate(p)
  \/ \E p \in Procs : RegisterStore(p)

SpecConcRegister == Init /\ [][NextConcRegister]_vars

\* the same with users deactivated while requests are in flight
NextConcDeactivate == NextConc \/ Deactivate

SpecConcDeactivate == Init /\ [][NextConcDeactivate]_vars
\* ==== properties ===========================================================
\* the error names of the specification, as the responses the service gives
InvalidRefreshTokenError(r) == r.code = 401 /\ r.message = "Invalid refresh token"
RefreshTokenExpiredError(r) == r.code = 401 /\ r.message = "Refresh token expired"
InvalidCredentialsError(r) == r.code = 401 /\ r.message = "Invalid credentials"
AccountInactiveError(r) == r.code = 401 /\ r.message = "Account is deactivated"
ConflictError(r) == r.code = 409
Succeeded(r) == r.code \in {200, 201}

\* t is a refresh token of the store that was issued and never used: its row
\* is unrevoked and unexpired, the JWT is unexpired and its owner is active
Usable(t) ==
  /\ IsJwt(t)
  /\ (now \div MsPerSecond) < t.exp
  /\ \E r \in tokens :
       /\ r.token = t
       /\ ~r.isRevoked
       /\ now <= r.expiresAt
       /\ \E u \in users : u.id = r.userId /\ u.isActive

\* C1: refresh called twice in sequence with the same usable refresh token:
\* the first call succeeds and returns a new pair, the second fails with
\* InvalidRefreshTokenError.
C1_RefreshTwice ==
  [][\A t \in Presentable :
       /\ (Usable(t) /\ RefreshCall(t))
             => (Succeeded(resp') /\ resp'.tokens # NoTokens)
       /\ (/\ resp.op = "refresh"
           /\ Succeeded(resp)
           /\ resp.arg.refreshToken = t
           /\ RefreshCall(t))
             => InvalidRefreshTokenError(resp')]_vars
\* C2: two refresh requests with the same token, their store operations
\* interleaved: at most one of them succeeds; the other fails with
\* InvalidRefreshTokenError.
C2_OneConcurrentWinner ==
  \A p \in Procs, q \in Procs :
    (/\ p # q
     /\ procs[p].pc = "done"
     /\ procs[q].pc = "done"
     /\ procs[p].token = procs[q].token
     /\ Succeeded(procs[p].out))
       => (~Succeeded(procs[q].out) /\ InvalidRefreshTokenError(procs[q].out))

\* the operations that issue a token pair
IssuanceStep == Register \/ Login \/ RefreshTokens

\* the user a response's request was made for, given the tables: by email
\* for register and login, the owner of the presented token's row for refresh
RequestUserIds(r, userTable, tokenTable) ==
  IF r.op \in {"register", "login"}
  THEN {u.id : u \in {v \in userTable : v.email = r.arg.email}}
  ELSE IF r.op = "refresh"
  THEN {row.userId : row \in {w \in tokenTable : w.token = r.arg.refreshToken}}
  ELSE {}

\* C3: a token pair is returned by register, login or refresh only if a row
\* for the returned refresh token, unrevoked and owned by that user, has been
\* persisted by the call; when the write of the row fails no token is returned.
\* (Every request writes resp; a step that changes resp is a request.)
C3_TokenOnlyIfPersisted ==
  [][resp' # resp =>
       \A pair \in resp'.tokens :
         \E r \in tokens' \ tokens :
           /\ r.token = pair.refreshToken
           /\ ~r.isRevoked
           /\ r.userId \in RequestUserIds(resp', users', tokens')]_vars

C3_Witness ==
  /\ resp.op = "refresh"
  /\ Succeeded(resp)
  /\ \E pair \in resp.tokens, r \in tokens :
       /\ r.token = pair.refreshToken
       /\ ~r.isRevoked
       /\ r.userId \in RequestUserIds(resp, users, tokens)

\* C4: refresh with a token whose row is unrevoked and has expiresAt in the
\* past fails with RefreshTokenExpiredError, not InvalidRefreshTokenError, and
\* leaves the row unrevoked.
C4_ExpiredRowRejected ==
  [][\A t \in Presentable :
       (/\ \E r \in tokens : r.token = t /\ ~r.isRevoked /\ now > r.expiresAt
        /\ RefreshCall(t))
         => /\ RefreshTokenExpiredError(resp')
            /\ ~InvalidRefreshTokenError(resp')
            /\ tokens' = tokens]_vars

\* C5: when register, login or refresh fails, the user table and the
\* refresh-token table are as they were before the call.
C5_AllOrNothing ==
  [][(IssuanceStep /\ ~Succeeded(resp'))
       => (users' = users /\ tokens' = tokens)]_vars

\* C6: login with the email and password of a registered, active user
\* succeeds, and the access token returned carries the user's id as sub and
\* the user's stored role.
C6_LoginReturnsStoredClaims ==
  [][\A email \in Emails, password \in Passwords :
       \A u \in users :
         (/\ u.email = email
          /\ u.isActive
          /\ u.password.of = password
          /\ LoginCall(email, password))
           => /\ Succeeded(resp')
              /\ resp'.tokens # NoTokens
              /\ \A pair \in resp'.tokens :
                   /\ pair.accessToken.sub = u.id
                   /\ pair.accessToken.role = u.role]_vars

\* C7: login answers AccountInactiveError only when the password matches: a
\* deactivated user with a wrong password gets InvalidCredentialsError.
C7_InactiveOnlyAfterPassword ==
  [][\A email \in Emails, password \in Passwords :
       \A u \in users :
         (/\ u.email = email
          /\ ~u.isActive
          /\ u.password.of # password
          /\ LoginCall(email, password))
           => InvalidCredentialsError(resp')]_vars

\* C8: login with an email of no user and login with an existing email and a
\* wrong password fail with the same error, InvalidCredentialsError with the
\* same message, and change no stored state.
C8_SameErrorForUnknownAndWrong ==
  [][\A email \in Emails, password \in Passwords :
       (/\ \/ ~\E u \in users : u.email = email
           \/ \E u \in users : u.email = email /\ u.password.of # password
        /\ LoginCall(email, password))
         => /\ resp' = Unauthorized("login",
                                    [email |-> email, password |-> password],
                                    "Invalid credentials")
            /\ users' = users
            /\ tokens' = tokens]_vars

\* C9: register with an email that belongs to a stored user fails with
\* ConflictError, creates no user, returns no tokens and persists no row.
C9_DuplicateEmailConflict ==
  [][\A email \in Emails, password \in RegisteredPasswords :
       (/\ \E u \in users : u.email = email
        /\ RegisterCall(email, password))
         => /\ ConflictError(resp')
            /\ resp'.tokens = NoTokens
            /\ users' = users
            /\ nextId' = nextId
            /\ tokens' = tokens]_vars

C9_Witness ==
  /\ resp.op = "register"
  /\ ConflictError(resp)
  /\ \E u \in users : u.email = resp.arg.email

\* C10: logout always reports success (live token, already revoked token,
\* token without a row); afterwards the row of the token, if any, is revoked,
\* and a repeated logout leaves the table unchanged.
C10_LogoutIdempotent ==
  [][\A t \in Presentable :
       LogoutCall(t)
         => /\ Succeeded(resp')
            /\ \A r \in tokens' : r.token = t => r.isRevoked
            /\ {r.token : r \in tokens'} = {r.token : r \in tokens}
            /\ (resp.op = "logout" /\ resp.arg.refreshToken = t)
                 => tokens' = tokens]_vars

C10_Witness ==
  /\ resp.op = "logout"
  /\ Succeeded(resp)
  /\ \E r \in tokens :
       /\ r.token = resp.arg.refreshToken
       /\ r.isRevoked
       /\ \E u \in users : u.id = r.userId /\ u.isActive
\* C11: after logout(t) has completed, every later refresh(t) fails with
\* InvalidRefreshTokenError, whatever operations happen in between.
C11_NoRefreshAfterLogout ==
  [][\A t \in loggedOut :
       RefreshCall(t) => InvalidRefreshTokenError(resp')]_vars

C11_Witness ==
  /\ resp.op = "refresh"
  /\ resp.arg.refreshToken \in loggedOut
  /\ InvalidRefreshTokenError(resp)
  /\ \E r \in tokens :
       /\ r.token = resp.arg.refreshToken
       /\ now <= r.expiresAt
       /\ (now \div MsPerSecond) < r.token.exp
       /\ \E u \in users : u.id = r.userId /\ u.isActive

\* C13: refresh with a validly signed, unexpired token whose row is unrevoked
\* and unexpired and whose owner is inactive fails with AccountInactiveError,
\* which is not InvalidRefreshTokenError.
C13_InactiveOwnerRejected ==
  [][\A t \in Presentable :
       (/\ IsJwt(t)
        /\ t.sig = config.refreshSecret
        /\ (now \div MsPerSecond) < t.exp
        /\ \E r \in tokens :
             /\ r.token = t
             /\ ~r.isRevoked
             /\ now <= r.expiresAt
             /\ \E u \in users : u.id = r.userId /\ u.id = t.sub /\ ~u.isActive
        /\ RefreshCall(t))
         => /\ AccountInactiveError(resp')
            /\ ~InvalidRefreshTokenError(resp')]_vars

\* C16: every row of the refresh-token table expires when the refresh token
\* it stores expires (compared in whole seconds), whatever refresh TTL is
\* configured.
C16_RowExpiryMatchesToken ==
  \A r \in tokens : r.expiresAt \div MsPerSecond = r.token.exp

\* C17: when refresh passes every check and the creation of the new row
\* fails, the caller gets a server error and not InvalidRefreshTokenError.
C17_StoreFailureSurfaced ==
  [][\A t \in Presentable :
       (/\ Usable(t)
        /\ t.sig = config.refreshSecret
        /\ \E u \in users :
             /\ u.id = t.sub
             /\ createThrows(revoke(tokens, t),
                             refreshTokenRow(u.id,
                               generateTokens(u.id, u.email, u.role).refreshToken))
        /\ RefreshCall(t))
         => /\ resp'.code = 500
            /\ ~InvalidRefreshTokenError(resp')]_vars

\* C18: of the rows of one rotation chain (the row login or register created
\* and the rows created by the refreshes that followed from it) at most one
\* is unrevoked, in every state of every interleaving.
C18_OneLivePerChain ==
  \A r1 \in tokens, r2 \in tokens :
    (/\ Root(r1.token) = Root(r2.token)
     /\ ~r1.isRevoked
     /\ ~r2.isRevoked)
      => r1 = r2

\* C19: a step changes a stored row only by setting isRevoked from false to
\* true, and refresh with a token whose row is revoked never succeeds.  (The
\* refresh a step completes is the one its response names.)
C19_RevokedIsTerminal ==
  [][/\ \A r \in tokens, r2 \in tokens' :
          r2.token = r.token
            => /\ r2.userId = r.userId
               /\ r2.expiresAt = r.expiresAt
               /\ (r.isRevoked => r2.isRevoked)
     /\ (/\ resp'.op = "refresh"
         /\ \E r \in tokens : r.token = resp'.arg.refreshToken /\ r.isRevoked
         /\ RefreshCall(resp'.arg.refreshToken))
          => (~Succeeded(resp') /\ tokens' = tokens)]_vars

\* a refresh with a revoked token has been refused, the token and its row
\* being otherwise good, and another row of the table is still unrevoked
C19_Witness ==
  /\ resp.op = "refresh"
  /\ ~Succeeded(resp)
  /\ \E r \in tokens :
       /\ r.token = resp.arg.refreshToken
       /\ r.isRevoked
       /\ now <= r.expiresAt
       /\ (now \div MsPerSecond) < r.token.exp
       /\ \E u \in users : u.id = r.userId /\ u.isActive
  /\ \E r \in tokens : ~r.isRevoked

\* b is an access token the service signed and that has not expired
ValidAccessToken(b) ==
  /\ IsJwt(b)
  /\ b.sig = config.accessSecret
  /\ (now \div MsPerSecond) < b.exp

\* C12: currentUser with a validly signed, unexpired access token of a user
\* who has been deactivated since it was issued is rejected with
\* AccountInactiveError.
C12_DeactivatedRejected ==
  [][\A b \in Bearers :
       (/\ ValidAccessToken(b)
        /\ \E u \in users : u.id = b.sub /\ ~u.isActive
        /\ CurrentUserCall(b))
         => AccountInactiveError(resp')]_vars

C12_Witness ==
  /\ resp.op = "me"
  /\ AccountInactiveError(resp)
  /\ ValidAccessToken(resp.arg.bearer)
  /\ \E u \in users : u.id = resp.arg.bearer.sub /\ ~u.isActive

\* the operations on users the specification reserves to administrators
AdminRoutes == {"findAll", "findOne", "update", "remove", "assignRole"}

\* the step is a request to UsersController; the request a step completes is
\* the one its response names
IsUsersRequest ==
  /\ resp'.op \in AdminRoutes \cup {"profile"}
  /\ DOMAIN resp'.arg = {"bearer", "id", "role"}
  /\ UsersRequestCall(resp'.op, resp'.arg.bearer, resp'.arg.id, resp'.arg.role)

\* C14: authorization is membership of the principal's role in the required
\* set: {ADMIN} denies USER and allows ADMIN, the empty set allows everyone
\* authenticated; so list, get by id, update, delete and assign-role are
\* denied to a USER and let in an ADMIN, and profile is open to every
\* authenticated user.
C14_FlatRoleMembership ==
  [][/\ ~authorize([role |-> "USER"], {"ADMIN"})
     /\ authorize([role |-> "ADMIN"], {"ADMIN"})
     /\ \A role \in Roles : authorize([role |-> role], {})
     /\ IsUsersRequest
          => LET route == resp'.op
                 b == resp'.arg.bearer
             IN  (/\ ValidAccessToken(b)
                  /\ \E u \in users : u.id = b.sub /\ u.isActive)
                   => /\ (route \in AdminRoutes /\ b.role = "USER")
                           => /\ resp'.code = 403
                              /\ users' = users
                              /\ tokens' = tokens
                      /\ (route \in AdminRoutes /\ b.role = "ADMIN")
                           => resp'.code \notin {401, 403}
                      /\ route = "profile" => resp'.code = 200]_vars

\* a USER has been refused the deletion of a user who is still there, while
\* an administrator exists
C14_Witness ==
  /\ resp.op = "remove"
  /\ DOMAIN resp.arg = {"bearer", "id", "role"}
  /\ resp.code = 403
  /\ ValidAccessToken(resp.arg.bearer)
  /\ resp.arg.bearer.role = "USER"
  /\ \E u \in users : u.id = resp.arg.id
  /\ \E u \in users : u.role = "ADMIN" /\ u.isActive

\* C15: a request to a protected operation without an access token, or with
\* one that is invalid or expired, is answered 401 and changes nothing,
\* whatever role the operation requires; 403 is answered only to a verified
\* token whose role is not in the required set.
C15_UnauthenticatedBeforeForbidden ==
  [][IsUsersRequest
       => LET route == resp'.op
              b == resp'.arg.bearer
          IN  /\ ~ValidAccessToken(b)
                   => (resp'.code = 401 /\ users' = users /\ tokens' = tokens)
              /\ resp'.code = 403
                   => /\ ValidAccessToken(b)
                      /\ route \in AdminRoutes
                      /\ b.role # "ADMIN"]_vars

\* an expired access token of a USER has been answered 401 on an
\* administrators' operation
C15_Witness ==
  /\ resp.op \in AdminRoutes
  /\ DOMAIN resp.arg = {"bearer", "id", "role"}
  /\ resp.code = 401
  /\ IsJwt(resp.arg.bearer)
  /\ resp.arg.bearer.sig = config.accessSecret
  /\ resp.arg.bearer.role = "USER"
  /\ (now \div MsPerSecond) >= resp.arg.bearer.exp

C21_AccessTokenNeverRefreshes ==
  [][\A pair \in resp.tokens :
       RefreshCall(pair.accessToken)
         => /\ InvalidRefreshTokenError(resp')
            /\ users' = users
            /\ tokens' = tokens]_vars

\* C22: an issuance never produces a refresh token string that is already
\* stored: login with the right password by an active user, and refresh with
\* a usable token, succeed and add a row, whatever rows the store holds and
\* in whatever clock second they were created.
C22_IssuedTokenIsNew ==
  [][/\ \A email \in Emails, password \in Passwords :
          (/\ \E u \in users :
                u.email = email /\ u.isActive /\ u.password.of = password
           /\ LoginCall(email, password))
            => /\ Succeeded(resp')
               /\ \E r \in tokens' \ tokens :
                    \A pair \in resp'.tokens : r.token = pair.refreshToken
     /\ (/\ resp'.op = "refresh"
         /\ Usable(resp'.arg.refreshToken)
         /\ resp'.arg.refreshToken.sig = config.refreshSecret
         /\ RefreshCall(resp'.arg.refreshToken))
          => /\ Succeeded(resp')
             /\ \E r \in tokens' :
                  /\ r.token \notin {old.token : old \in tokens}
                  /\ \A pair \in resp'.tokens : r.token = pair.refreshToken]_vars

\* C23: a refresh-token row is created only while its owner is active, in
\* every interleaving of deactivate with the requests that issue tokens.
C23_IssuedOnlyToActive ==
  [][\A r \in tokens' :
       r.token \notin {old.token : old \in tokens}
         => \E u \in users' : u.id = r.userId /\ u.isActive]_vars

\* t passes verification under the refresh secret
ValidRefreshToken(t) ==
  /\ IsJwt(t)
  /\ t.sig = config.refreshSecret
  /\ (now \div MsPerSecond) < t.exp

\* C24: refresh with a token that fails verification under the refresh
\* secret (no JWT, another signature, expired) answers
\* InvalidRefreshTokenError; the store is not written, and what is thrown is
\* the same whatever the store holds.
C24_CodecFailureRejected ==
  [][(/\ resp'.op = "refresh"
      /\ ~ValidRefreshToken(resp'.arg.refreshToken)
      /\ RefreshCall(resp'.arg.refreshToken))
       => /\ InvalidRefreshTokenError(resp')
          /\ users' = users
          /\ tokens' = tokens
          /\ refreshCheck({}, resp'.arg.refreshToken)
               = refreshCheck(tokens, resp'.arg.refreshToken)]_vars

\* an expired refresh token whose row is unrevoked has been refused
C24_Witness ==
  /\ resp.op = "refresh"
  /\ InvalidRefreshTokenError(resp)
  /\ IsJwt(resp.arg.refreshToken)
  /\ resp.arg.refreshToken.sig = config.refreshSecret
  /\ (now \div MsPerSecond) >= resp.arg.refreshToken.exp
  /\ \E r \in tokens : r.token = resp.arg.refreshToken /\ ~r.isRevoked

\* C25: refresh with a validly signed token whose row is revoked and refresh
\* with a validly signed token that has no row give the same response,
\* InvalidRefreshTokenError with the same message, and leave the store as it
\* was.
C25_RevokedLikeUnknown ==
  [][(/\ resp'.op = "refresh"
      /\ ValidRefreshToken(resp'.arg.refreshToken)
      /\ \A r \in tokens : r.token = resp'.arg.refreshToken => r.isRevoked
      /\ RefreshCall(resp'.arg.refreshToken))
       => /\ resp' = Unauthorized("refresh", resp'.arg, "Invalid refresh token")
          /\ users' = users
          /\ tokens' = tokens]_vars

\* a validly signed token without a row has been refused, while the store
\* holds a revoked row
C25_Witness ==
  /\ resp.op = "refresh"
  /\ InvalidRefreshTokenError(resp)
  /\ ValidRefreshToken(resp.arg.refreshToken)
  /\ ~\E r \in tokens : r.token = resp.arg.refreshToken
  /\ \E r \in tokens : r.isRevoked /\ ValidRefreshToken(r.token)

\* C26: logout(t) and a successful refresh(t) change no row but the one whose
\* token is t: every other row, those of the same user's other sessions
\* included, is exactly as before, and so is its owner.
C26_OnlyPresentedRowRevoked ==
  [][(/\ resp'.op \in {"logout", "refresh"}
      /\ \/ LogoutCall(resp'.arg.refreshToken)
         \/ (RefreshCall(resp'.arg.refreshToken) /\ Succeeded(resp')))
       => /\ \A r \in tokens : r.token # resp'.arg.refreshToken => r \in tokens'
          /\ users' = users]_vars

\* a logout has revoked the row of its token and another session of the same
\* user is still usable
C26_Witness ==
  /\ resp.op = "logout"
  /\ \E r \in tokens, other \in tokens :
       /\ r.token = resp.arg.refreshToken
       /\ r.isRevoked
       /\ other.userId = r.userId
       /\ other.token # r.token
       /\ Usable(other.token)

\* C27: two register requests with the same, unused email, their store
\* operations interleaved: afterwards one user has that email, one request
\* has succeeded and the other has failed with ConflictError.
C27_OneRegistrationWins ==
  \A p \in Procs, q \in Procs :
    (/\ p # q
     /\ procs[p].pc = "done"
     /\ procs[q].pc = "done"
     /\ procs[p].email = procs[q].email
     /\ Succeeded(procs[p].out))
      => /\ Cardinality({u \in users : u.email = procs[p].email}) = 1
         /\ ~Succeeded(procs[q].out)
         /\ ConflictError(procs[q].out)

\* C28: a refresh refused because the token's owner is inactive leaves every
\* row as it was, the presented one unrevoked; and once the owner has been
\* reactivated, a refresh with the token, still unexpired, succeeds.  (The
\* refusal changes nothing, so the second part is stated for the refresh
\* that follows the reactivation.)
C28_TokenSurvivesInactivity ==
  [][/\ (/\ resp'.op = "refresh"
         /\ ValidRefreshToken(resp'.arg.refreshToken)
         /\ \E r \in tokens :
              /\ r.token = resp'.arg.refreshToken
              /\ ~r.isRevoked
              /\ now <= r.expiresAt
              /\ \E u \in users : u.id = r.userId /\ ~u.isActive
         /\ RefreshCall(resp'.arg.refreshToken))
          => (~Succeeded(resp') /\ tokens' = tokens /\ users' = users)
     /\ (/\ resp.op = "reactivate"
         /\ resp'.op = "refresh"
         /\ ValidRefreshToken(resp'.arg.refreshToken)
         /\ resp'.arg.refreshToken.sub = resp.arg.id
         /\ Usable(resp'.arg.refreshToken)
         /\ RefreshCall(resp'.arg.refreshToken))
          => (Succeeded(resp') /\ resp'.tokens # NoTokens)]_vars

\* C29: the pair a successful refresh returns carries the email and the role
\* stored for the user at that moment, not those of the presented token.
C29_RefreshUsesStoredClaims ==
  [][(/\ resp'.op = "refresh"
      /\ RefreshCall(resp'.arg.refreshToken)
      /\ Succeeded(resp'))
       => \A pair \in resp'.tokens :
            \E u \in users :
              /\ u.id = resp'.arg.refreshToken.sub
              /\ pair.accessToken.role = u.role
              /\ pair.accessToken.email = u.email
              /\ pair.refreshToken.role = u.role
              /\ pair.refreshToken.email = u.email]_vars

\* a refresh has succeeded with a token that carries another role than the
\* user has now
C29_Witness ==
  /\ resp.op = "refresh"
  /\ Succeeded(resp)
  /\ \E pair \in resp.tokens, u \in users :
       /\ u.id = resp.arg.refreshToken.sub
       /\ u.role # resp.arg.refreshToken.role
       /\ pair.accessToken.role = u.role

\* C30: after every step, each row's userId is the sub claim of the token it
\* stores; and the row a successful refresh creates has the owner of the row
\* of the presented token.
C30_OwnerIsSubject ==
  [][/\ \A r \in tokens' : r.userId = r.token.sub
     /\ (/\ resp'.op = "refresh"
         /\ RefreshCall(resp'.arg.refreshToken)
         /\ Succeeded(resp'))
          => \A pair \in resp'.tokens :
               \E new \in tokens', old \in tokens :
                 /\ new.token = pair.refreshToken
                 /\ old.token = resp'.arg.refreshToken
                 /\ new.userId = old.userId]_vars

\* a refresh has succeeded and the store holds the row it created and the
\* row of the presented token, both of the token's subject
C30_Witness ==
  /\ resp.op = "refresh"
  /\ Succeeded(resp)
  /\ \E pair \in resp.tokens, new \in tokens, old \in tokens :
       /\ new.token = pair.refreshToken
       /\ old.token = resp.arg.refreshToken
       /\ new.token # old.token
       /\ new.userId = old.token.sub
       /\ \E other \in tokens : other.userId # new.userId

\* C31: logout needs a valid access token and nothing more: without one the
\* request is answered 401 and revokes nothing; with one, of whichever user,
\* the row of the presented refresh token is revoked, the caller's own or
\* another user's, and no other row changes.
C31_LogoutIgnoresOwner ==
  [][(/\ resp'.op = "auth/logout"
      /\ LogoutRequestCall(resp'.arg.bearer, resp'.arg.refreshToken))
       => /\ ~ValidAccessToken(resp'.arg.bearer)
               => (resp'.code = 401 /\ tokens' = tokens)
          /\ (/\ ValidAccessToken(resp'.arg.bearer)
              /\ \E u \in users : u.id = resp'.arg.bearer.sub /\ u.isActive)
               => /\ Succeeded(resp')
                  /\ \A r \in tokens :
                       \E r2 \in tokens' :
                         /\ r2.token = r.token
                         /\ r2.userId = r.userId
                         /\ r2.expiresAt = r.expiresAt
                         /\ r2.isRevoked
                              = (r.isRevoked \/ r.token = resp'.arg.refreshToken)]_vars

\* a user has logged out a live refresh token of another, active user
C31_Witness ==
  /\ resp.op = "auth/logout"
  /\ Succeeded(resp)
  /\ ValidAccessToken(resp.arg.bearer)
  /\ \E r \in tokens :
       /\ r.token = resp.arg.refreshToken
       /\ r.isRevoked
       /\ r.userId # resp.arg.bearer.sub
       /\ now <= r.expiresAt
       /\ ValidRefreshToken(r.token)
       /\ \E u \in users : u.id = r.userId /\ u.isActive
====
